---- MODULE Spec2Model ----
(***************************************************************************)
(* Credential-to-client resolution of API_Rate_Limiter:                    *)
(*   src/src/ip_manager.py       IPManager      (CIDR registry, validate_ip) *)
(*   src/src/api_key_manager.py  APIKeyManager  (key registry, validate_key) *)
(*                                                                         *)
(* Text is modelled as a sequence of one-character strings, so that        *)
(* parsing, trimming and formatting are computed character by character.   *)
(* An IPv4 address is four octets, an IPv6 address eight hextets; masks    *)
(* are applied group by group (the groups of a 32/128-bit integer).        *)
(***************************************************************************)
EXTENDS Integers, Sequences, FiniteSets, TLC

\* ------------------------------------------------------------------ text

RECURSIVE SplitAcc(_, _, _, _, _)
SplitAcc(s, sep, i, cur, acc) ==
    IF i > Len(s) THEN Append(acc, cur)
    ELSE IF s[i] = sep THEN SplitAcc(s, sep, i + 1, <<>>, Append(acc, cur))
    ELSE SplitAcc(s, sep, i + 1, Append(cur, s[i]), acc)

\* str.split(sep): always at least one part
split(s, sep) == SplitAcc(s, sep, 1, <<>>, <<>>)

IsSpace(c) == c \in {" ", "\t"}

RECURSIVE LStrip(_)
LStrip(s) == IF s # <<>> /\ IsSpace(Head(s)) THEN LStrip(Tail(s)) ELSE s

RECURSIVE RStrip(_)
RStrip(s) ==
    IF s # <<>> /\ IsSpace(s[Len(s)]) THEN RStrip(SubSeq(s, 1, Len(s) - 1)) ELSE s

\* str.strip()
strip(s) == RStrip(LStrip(s))

Contains(s, c) == \E i \in 1..Len(s) : s[i] = c

RECURSIVE Join(_, _)
Join(parts, sep) ==
    IF parts = <<>> THEN <<>>
    ELSE IF Len(parts) = 1 THEN parts[1]
    ELSE parts[1] \o <<sep>> \o Join(Tail(parts), sep)

DecDigits == <<"0", "1", "2", "3", "4", "5", "6", "7", "8", "9">>
HexLower == DecDigits \o <<"a", "b", "c", "d", "e", "f">>
HexUpper == DecDigits \o <<"A", "B", "C", "D", "E", "F">>

IndexOf(seq, c) == CHOOSE i \in 1..Len(seq) : seq[i] = c
IsIn(seq, c) == \E i \in 1..Len(seq) : seq[i] = c

\* str.isascii() and str.isdigit(); false for the empty string
IsDecimal(s) == s # <<>> /\ \A i \in 1..Len(s) : IsIn(DecDigits, s[i])
IsHex(s) == \A i \in 1..Len(s) : IsIn(HexLower, s[i]) \/ IsIn(HexUpper, s[i])

HexVal(c) == IF IsIn(HexLower, c) THEN IndexOf(HexLower, c) - 1
             ELSE IndexOf(HexUpper, c) - 1

RECURSIVE IntOf(_, _, _)
\* int(s, base) of a digit string, left to right
IntOf(s, base, acc) ==
    IF s = <<>> THEN acc ELSE IntOf(Tail(s), base, acc * base + HexVal(Head(s)))

RECURSIVE ToBase(_, _)
\* '%d' % n and '%x' % n
ToBase(n, base) ==
    IF n < base THEN <<HexLower[n + 1]>>
    ELSE ToBase(n \div base, base) \o <<HexLower[(n % base) + 1]>>

\* ------------------------------------------------------------ ipaddress

NoAddress == [ok |-> FALSE, version |-> 0, groups |-> <<>>, scope |-> <<>>]
NoNetwork ==
    [ok |-> FALSE, version |-> 0, groups |-> <<>>, prefixlen |-> 0, scope |-> <<>>]

GroupBits(version) == IF version = 4 THEN 8 ELSE 16
GroupCount(version) == IF version = 4 THEN 4 ELSE 8
MaxPrefixLen(version) == IF version = 4 THEN 32 ELSE 128

\* the first of two parses that succeeded: IPv4 is tried, then IPv6
FirstOk(v4, v6) == IF v4.ok THEN v4 ELSE v6

\* v if it is at most max, else -1 (the ValueError)
AtMost(v, max) == IF v > max THEN -1 ELSE v

\* IPv4Address._parse_octet; -1 stands for the ValueError
ParseOctet(o) ==
    IF ~IsDecimal(o) THEN -1
    ELSE IF Len(o) > 3 THEN -1
    ELSE IF o # <<"0">> /\ o[1] = "0" THEN -1
    ELSE AtMost(IntOf(o, 10, 0), 255)

\* the four octets parsed, <<>> if one of them is not an octet
OctetsOf(vals) == IF \E i \in 1..4 : vals[i] = -1 THEN <<>> ELSE vals

V4FromOctets(octets) ==
    IF Len(octets) # 4 THEN <<>>
    ELSE OctetsOf([i \in 1..4 |-> ParseOctet(octets[i])])

AddressOf(version, groups, scope) ==
    IF groups = <<>> THEN NoAddress
    ELSE [ok |-> TRUE, version |-> version, groups |-> groups, scope |-> scope]

\* IPv4Address(s)
IPv4Address(s) ==
    IF Contains(s, "/") \/ s = <<>> THEN NoAddress
    ELSE AddressOf(4, V4FromOctets(split(s, ".")), <<>>)

\* IPv6Address._parse_hextet; -1 stands for the ValueError
ParseHextet(h) ==
    IF ~IsHex(h) \/ Len(h) > 4 \/ h = <<>> THEN -1 ELSE IntOf(h, 16, 0)

\* parts.pop(), then the two hextets of the IPv4-style suffix appended
WithSuffix(parts, v4) ==
    IF ~v4.ok THEN <<>>
    ELSE SubSeq(parts, 1, Len(parts) - 1)
         \o <<ToBase(v4.groups[1] * 256 + v4.groups[2], 16),
              ToBase(v4.groups[3] * 256 + v4.groups[4], 16)>>

\* the parts of an IPv6 literal, an IPv4-style suffix rewritten as two hextets;
\* <<>> stands for the AddressValueError of the suffix
V6Parts(parts) ==
    IF ~Contains(parts[Len(parts)], ".") THEN parts
    ELSE WithSuffix(parts, IPv4Address(parts[Len(parts)]))

\* the eight hextets, <<>> if one of them is not a hextet
HextetsOf(vals) == IF \E i \in 1..8 : vals[i] = -1 THEN <<>> ELSE vals

\* the parts around the '::' at index skip: hi of them before it, lo after it
V6Skipped(parts, skip) ==
    LET n == Len(parts)
        hi == IF parts[1] = <<>> THEN skip - 2 ELSE skip - 1
        lo == IF parts[n] = <<>> THEN n - skip - 1 ELSE n - skip
        skipped == 8 - (hi + lo)
    IN  IF parts[1] = <<>> /\ hi # 0 THEN <<>>
        ELSE IF parts[n] = <<>> /\ lo # 0 THEN <<>>
        ELSE IF skipped < 1 THEN <<>>
        ELSE HextetsOf([i \in 1..8 |->
                          IF i <= hi THEN ParseHextet(parts[i])
                          ELSE IF i <= hi + skipped THEN 0
                          ELSE ParseHextet(parts[n - (8 - i)])])

V6FromParts(parts) ==
    LET n == Len(parts)
        skips == {i \in 2..(n - 1) : parts[i] = <<>>}
    IN  IF parts = <<>> \/ n > 9 \/ Cardinality(skips) > 1 THEN <<>>
        ELSE IF skips # {} THEN V6Skipped(parts, CHOOSE i \in skips : TRUE)
        ELSE IF n # 8 \/ parts[1] = <<>> \/ parts[n] = <<>> THEN <<>>
        ELSE HextetsOf([i \in 1..8 |-> ParseHextet(parts[i])])

\* IPv6Address._ip_int_from_string, as eight hextets (<<>>: AddressValueError)
V6Split(parts) == IF Len(parts) < 3 THEN <<>> ELSE V6FromParts(V6Parts(parts))

V6Groups(s) == IF s = <<>> THEN <<>> ELSE V6Split(split(s, ":"))

\* str.partition('%') of IPv6Address._split_scope_id: where the first '%' is
ScopeAt(s) == IF Contains(s, "%") THEN CHOOSE i \in 1..Len(s) :
                   s[i] = "%" /\ \A j \in 1..(i - 1) : s[j] # "%"
              ELSE 0

V6Scoped(s, at) ==
    IF at = 0 THEN AddressOf(6, V6Groups(s), <<>>)
    ELSE IF at = Len(s) \/ Contains(SubSeq(s, at + 1, Len(s)), "%") THEN NoAddress
    ELSE AddressOf(6, V6Groups(SubSeq(s, 1, at - 1)), SubSeq(s, at + 1, Len(s)))

\* IPv6Address(s)
IPv6Address(s) == IF Contains(s, "/") THEN NoAddress ELSE V6Scoped(s, ScopeAt(s))

\* ipaddress.ip_address(s): IPv4 first, then IPv6, else ValueError (ok = FALSE)
ip_address(s) == FirstOk(IPv4Address(s), IPv6Address(s))

RECURSIVE Pow2(_)
Pow2(n) == IF n = 0 THEN 1 ELSE 2 * Pow2(n - 1)

\* the bits of group i (1-based) that a prefix of length p covers
KeptBits(version, p, i) ==
    LET w == GroupBits(version)
        k == p - (i - 1) * w
    IN  IF k <= 0 THEN 0 ELSE IF k >= w THEN w ELSE k

\* g with its low bits cleared: g & ~(drop - 1), drop a power of two
ClearLow(g, drop) == (g \div drop) * drop

\* group g of an address ANDed with the netmask of prefix length p
MaskGroup(version, p, i, g) ==
    ClearLow(g, Pow2(GroupBits(version) - KeptBits(version, p, i)))

\* packed & int(netmask)
MaskGroups(version, p, groups) ==
    [i \in 1..Len(groups) |-> MaskGroup(version, p, i, groups[i])]

\* the netmask of prefix length p, as groups
NetmaskGroups(version, p) ==
    MaskGroups(version, p,
               [i \in 1..GroupCount(version) |-> Pow2(GroupBits(version)) - 1])

RECURSIVE LStripZeros(_)
LStripZeros(m) == IF m # <<>> /\ Head(m) = "0" THEN LStripZeros(Tail(m)) ELSE m

\* _prefix_from_prefix_string; -1 stands for the NetmaskValueError
PrefixFromPrefixString(version, m) ==
    IF ~IsDecimal(m) THEN -1
    ELSE IF Len(LStripZeros(m)) > 3 THEN -1
    ELSE AtMost(IntOf(m, 10, 0), MaxPrefixLen(version))

\* the prefix length whose netmask, or else whose hostmask, the octets are
PrefixOfMask(a) ==
    LET nets == {p \in 0..32 : NetmaskGroups(4, p) = a.groups}
        hosts == {p \in 0..32 :
                    NetmaskGroups(4, p) = [i \in 1..4 |-> 255 - a.groups[i]]}
    IN  IF ~a.ok THEN -1
        ELSE IF nets # {} THEN CHOOSE p \in nets : TRUE
        ELSE IF hosts # {} THEN CHOOSE p \in hosts : TRUE
        ELSE -1

\* IPv4Network._prefix_from_ip_string: a dotted netmask, else a dotted hostmask;
\* -1 stands for the NetmaskValueError
PrefixFromIpString(m) == PrefixOfMask(IPv4Address(m))

OrElse(p, q) == IF p # -1 THEN p ELSE q

\* _make_netmask(mask) of IPv4Network / IPv6Network, as a prefix length
MakeNetmask(version, m) ==
    IF version = 4
    THEN OrElse(PrefixFromPrefixString(4, m), PrefixFromIpString(m))
    ELSE PrefixFromPrefixString(6, m)

\* (mutation of NetworkOf) the address is kept as written, host bits and all
NetworkWithHostBits(addr, p) ==
    IF ~addr.ok \/ p = -1 THEN NoNetwork
    ELSE [ok |-> TRUE, version |-> addr.version, groups |-> addr.groups,
          prefixlen |-> p, scope |-> addr.scope]

\* the network of an address and a prefix length, strict=False: host bits are
\* cleared; an address with host bits is rebuilt from its integer, without scope
NetworkOf(addr, p) ==
    IF ~addr.ok \/ p = -1 THEN NoNetwork
    ELSE [ok |-> TRUE, version |-> addr.version,
          groups |-> MaskGroups(addr.version, p, addr.groups),
          prefixlen |-> p,
          scope |-> IF MaskGroups(addr.version, p, addr.groups) = addr.groups
                    THEN addr.scope ELSE <<>>]

\* _split_addr_prefix: the parts around '/', one '/' at most
NetworkFromParts(version, parts) ==
    IF Len(parts) > 2 THEN NoNetwork
    ELSE NetworkOf(IF version = 4 THEN IPv4Address(parts[1])
                   ELSE IPv6Address(parts[1]),
                   IF Len(parts) = 1 THEN MaxPrefixLen(version)
                   ELSE MakeNetmask(version, parts[2]))

\* IPv4Network(s, strict=False) / IPv6Network(s, strict=False)
Network(version, s) == NetworkFromParts(version, split(s, "/"))

\* ipaddress.ip_network(s, strict=False): IPv4 first, then IPv6, else ValueError
ip_network(s) == FirstOk(Network(4, s), Network(6, s))

\* (mutation of InNetwork) the addresses strictly above the network address
InNetworkAboveBase(ip, network) ==
    /\ network.version = ip.version
    /\ MaskGroups(network.version, network.prefixlen, ip.groups) = network.groups
    /\ ip.groups # network.groups

\* _BaseNetwork.__contains__: ip in network
InNetwork(ip, network) ==
    IF network.version # ip.version THEN FALSE
    ELSE MaskGroups(network.version, network.prefixlen, ip.groups) = network.groups

\* the length of the run of zero hextets that starts at i
ZeroRunLen(groups, i) ==
    Cardinality({j \in i..Len(groups) : \A k \in i..j : groups[k] = 0})

\* the longest run of zero hextets
BestRunLen(groups) ==
    LET lens == {ZeroRunLen(groups, i) : i \in 1..Len(groups)}
    IN  CHOOSE l \in lens : \A m \in lens : m <= l

\* where the first run of that length starts
BestRunStart(groups, len) ==
    CHOOSE i \in 1..Len(groups) :
        /\ ZeroRunLen(groups, i) = len
        /\ \A j \in 1..(i - 1) : ZeroRunLen(groups, j) < len

\* IPv6Address._compress_hextets, joined with ':'
Compressed(hextets, start, len) ==
    IF len <= 1 THEN Join(hextets, ":")
    ELSE Join((IF start = 1 THEN << <<>> >> ELSE <<>>)
              \o SubSeq(hextets, 1, start - 1) \o << <<>> >>
              \o SubSeq(hextets, start + len, 8)
              \o (IF start + len - 1 = 8 THEN << <<>> >> ELSE <<>>), ":")

CompressRun(groups, len) ==
    Compressed([i \in 1..8 |-> ToBase(groups[i], 16)],
               BestRunStart(groups, len), len)

\* IPv6Address._string_from_ip_int
V6String(groups) == CompressRun(groups, BestRunLen(groups))

\* IPv4Address._string_from_ip_int
V4String(groups) == Join([i \in 1..4 |-> ToBase(groups[i], 10)], ".")

\* str(network): '%s/%d' % (network_address, prefixlen)
NetworkStr(network) ==
    (IF network.version = 4 THEN V4String(network.groups)
     ELSE V6String(network.groups)
          \o (IF network.scope # <<>> THEN <<"%">> \o network.scope ELSE <<>>))
    \o <<"/">> \o ToBase(network.prefixlen, 10)

\* ------------------------------------------------------------ the sources

\* bounds of the model
MaxEdits == 1
MaxReloads == 1

\* csv.DictReader's restval: the value of a field a short row does not have
None == <<"None">>

RequiredIpColumns == {"client_name", "classification", "cidr_ranges"}
RequiredKeyColumns == {"api_key", "client_name", "classification"}

IpHeader == <<"client_name", "classification", "cidr_ranges">>
KeyHeader == <<"api_key", "client_name", "classification">>

Absent == [exists |-> FALSE, readable |-> FALSE, fieldnames |-> <<>>, rows |-> <<>>]
Locked == [exists |-> TRUE, readable |-> FALSE, fieldnames |-> <<>>, rows |-> <<>>]
Table(fieldnames, rows) ==
    [exists |-> TRUE, readable |-> TRUE, fieldnames |-> fieldnames, rows |-> rows]

\* a source with one client X owning the single prefix cidr
Single(cidr) == Table(IpHeader, << <<<<"X">>, <<"p", "r", "e", "m", "i", "u", "m">>, cidr>> >>)

\* the states of ip_clients.csv the program is run against
IpFileContent(f) ==
    CASE f = "missing" -> Absent
      [] f = "unreadable" -> Locked
      [] f = "empty" -> Table(<<>>, <<>>)
      [] f = "bad_header" ->
            Table(<<"client_name", "classification", "cidr">>,
                  << <<<<"X">>, <<"p", "r", "e", "m", "i", "u", "m">>, <<"1", "0", ".", "0", ".", "0", ".", "0", "/", "8">>>> >>)
      [] f = "overlap" ->
            Table(IpHeader,
                  << <<<<"X">>, <<"p", "r", "e", "m", "i", "u", "m">>, <<"1", "0", ".", "0", ".", "0", ".", "0", "/", "8">>>>,
                     <<<<"Y">>, <<"s", "t", "a", "n", "d", "a", "r", "d">>, <<"1", "0", ".", "1", ".", "0", ".", "0", "/", "1", "6", ",", " ", "2", "0", "0", "1", ":", "d", "b", "8", ":", ":", "/", "3", "2">>>> >>)
      [] f = "mixed" ->
            Table(<<"id", "client_name", "classification", "cidr_ranges">>,
                  << <<<<"1">>, <<"A">>, <<"p", "r", "e", "m", "i", "u", "m">>, <<"1", "9", "2", ".", "1", "6", "8", ".", "1", ".", "5", "/", "2", "4", ",", "b", "o", "g", "u", "s", ",", " ", "1", "7", "2", ".", "1", "6", ".", "0", ".", "0", "/", "1", "2">>>>,
                     <<<<"2">>, <<"B">>, <<"s", "t", "a", "n", "d", "a", "r", "d">>, <<"n", "o", "p", "e", ",", " ", "3", "0", "0", ".", "1", ".", "1", ".", "1", "/", "8">>>>,
                     <<>>,
                     <<<<"3">>, <<"C">>, <<"s", "t", "a", "n", "d", "a", "r", "d">>, <<" ", "8", ".", "8", ".", "8", ".", "8", " ", ",", "1", "9", "2", ".", "1", "6", "8", ".", "1", ".", "7", "/", "3", "2">>>> >>)
      [] f = "short_row" ->
            Table(IpHeader,
                  << <<<<"A">>, <<"p", "r", "e", "m", "i", "u", "m">>, <<"1", "7", "2", ".", "1", "6", ".", "0", ".", "0", "/", "1", "2">>>>,
                     <<<<"B">>, <<"s", "t", "a", "n", "d", "a", "r", "d">>>>,
                     <<<<"C">>, <<"s", "t", "a", "n", "d", "a", "r", "d">>, <<"1", "0", ".", "0", ".", "0", ".", "0", "/", "8">>>> >>)
      [] f = "v4_net" -> Single(<<"1", "0", ".", "0", ".", "0", ".", "0", "/", "8">>)
      [] f = "v4_hostbits" -> Single(<<"1", "0", ".", "0", ".", "0", ".", "5", "/", "8">>)
      [] f = "v4_netmask" -> Single(<<"1", "0", ".", "0", ".", "0", ".", "0", "/", "2", "5", "5", ".", "0", ".", "0", ".", "0">>)
      [] f = "v4_24" -> Single(<<"1", "9", "2", ".", "1", "6", "8", ".", "1", ".", "0", "/", "2", "4">>)
      [] f = "v4_24_hostbits" -> Single(<<"1", "9", "2", ".", "1", "6", "8", ".", "1", ".", "5", "/", "2", "4">>)
      [] f = "v4_host" -> Single(<<"1", "9", "2", ".", "1", "6", "8", ".", "1", ".", "7", "/", "3", "2">>)
      [] f = "v4_bare" -> Single(<<"1", "9", "2", ".", "1", "6", "8", ".", "1", ".", "7">>)
      [] f = "v4_odd" -> Single(<<"1", "0", ".", "1", ".", "2", ".", "3", "/", "9">>)
      [] f = "v4_odd_cleared" -> Single(<<"1", "0", ".", "0", ".", "0", ".", "0", "/", "9">>)
      [] f = "v4_all" -> Single(<<"0", ".", "0", ".", "0", ".", "0", "/", "0">>)
      [] f = "v6_net" -> Single(<<"2", "0", "0", "1", ":", "d", "b", "8", ":", ":", "/", "3", "2">>)
      [] f = "v6_hostbits" -> Single(<<"2", "0", "0", "1", ":", "D", "B", "8", ":", ":", "1", "/", "3", "2">>)
      [] f = "v6_host" -> Single(<<"2", "0", "0", "1", ":", "d", "b", "8", ":", ":", "1", "/", "1", "2", "8">>)
      [] f = "v6_odd" -> Single(<<"2", "0", "0", "1", ":", "d", "b", "8", ":", "8", "0", "0", "0", ":", ":", "/", "3", "3">>)
      [] f = "v6_mapped" -> Single(<<":", ":", "f", "f", "f", "f", ":", "1", "0", ".", "0", ".", "0", ".", "0", "/", "1", "0", "4">>)
      [] f = "v6_all" -> Single(<<":", ":", "/", "0">>)

\* the sources of the whole-program specification
IpFiles ==
    {"missing", "unreadable", "empty", "bad_header", "overlap", "mixed", "short_row"}

\* single-network sources, for the matcher
SingleFiles ==
    {"v4_net", "v4_hostbits", "v4_netmask", "v4_24", "v4_24_hostbits", "v4_host",
     "v4_bare", "v4_odd", "v4_odd_cleared", "v4_all", "v6_net", "v6_hostbits",
     "v6_host", "v6_odd", "v6_mapped", "v6_all"}

\* the states of clients.csv the program is run against
KeyFileContent(f) ==
    CASE f = "missing" -> Absent
      [] f = "unreadable" -> Locked
      [] f = "bad_header" ->
            Table(<<"key", "client_name", "classification">>,
                  << <<<<"a", "b">>, <<"C", "l", "i", "e", "n", "t", "A">>, <<"p", "r", "e", "m", "i", "u", "m">>>> >>)
      [] f = "clients" ->
            Table(KeyHeader,
                  << <<<<"a", "b">>, <<"C", "l", "i", "e", "n", "t", "A">>, <<"p", "r", "e", "m", "i", "u", "m">>>>,
                     <<<<"A", "B">>, <<"C", "l", "i", "e", "n", "t", "B">>, <<"s", "t", "a", "n", "d", "a", "r", "d">>>>,
                     <<<<"c", "d">>, <<"C", "l", "i", "e", "n", "t", "D">>>>,
                     <<<<"a", "b">>, <<"C", "l", "i", "e", "n", "t", "C">>, <<"b", "a", "s", "i", "c">>>> >>)
      [] f = "edited" ->
            Table(<<"api_key", "note", "client_name", "classification">>,
                  << <<<<"a", "b", " ">>, <<"n">>, <<"C", "l", "i", "e", "n", "t", "E">>, <<"p", "r", "e", "m", "i", "u", "m">>>>,
                     <<<<"z", "z">>, <<"n">>, <<"C", "l", "i", "e", "n", "t", "Z">>, <<"s", "t", "a", "n", "d", "a", "r", "d">>>> >>)

KeyFiles == {"missing", "unreadable", "bad_header", "clients", "edited"}

\* address strings handed to validate_ip
InvalidLiterals ==
    {<<>>, <<"n", "o", "t", "-", "a", "n", "-", "i", "p">>, <<"9", "9", "9", ".", "9", "9", "9", ".", "9", "9", "9", ".", "9", "9", "9">>, <<"1", "9", "2", ".", "1", "6", "8", ".", "1">>, <<"g", "g", "g", "g", ":", ":", "1">>}

ValidLiterals ==
    {<<"1", "0", ".", "0", ".", "0", ".", "0">>, <<"1", "0", ".", "1", ".", "2", ".", "3">>, <<"1", "0", ".", "1", "2", "7", ".", "2", "5", "5", ".", "2", "5", "5">>, <<"1", "0", ".", "1", "2", "8", ".", "0", ".", "0">>, <<"1", "0", ".", "2", "5", "5", ".", "2", "5", "5", ".", "2", "5", "5">>,
     <<"1", "1", ".", "0", ".", "0", ".", "0">>, <<"9", ".", "2", "5", "5", ".", "2", "5", "5", ".", "2", "5", "5">>,
     <<"1", "9", "2", ".", "1", "6", "8", ".", "1", ".", "0">>, <<"1", "9", "2", ".", "1", "6", "8", ".", "1", ".", "6">>, <<"1", "9", "2", ".", "1", "6", "8", ".", "1", ".", "7">>, <<"1", "9", "2", ".", "1", "6", "8", ".", "1", ".", "2", "5", "5">>, <<"1", "9", "2", ".", "1", "6", "8", ".", "2", ".", "0">>,
     <<"1", "7", "2", ".", "1", "6", ".", "0", ".", "1">>, <<"8", ".", "8", ".", "8", ".", "8">>,
     <<"2", "0", "0", "1", ":", "d", "b", "8", ":", ":">>, <<"2", "0", "0", "1", ":", "d", "b", "8", ":", ":", "1">>, <<"2", "0", "0", "1", ":", "d", "b", "8", ":", "7", "f", "f", "f", ":", ":">>, <<"2", "0", "0", "1", ":", "d", "b", "8", ":", "8", "0", "0", "0", ":", ":", "1">>,
     <<"2", "0", "0", "1", ":", "d", "b", "8", ":", "f", "f", "f", "f", ":", "f", "f", "f", "f", ":", "f", "f", "f", "f", ":", "f", "f", "f", "f", ":", "f", "f", "f", "f", ":", "f", "f", "f", "f">>, <<"2", "0", "0", "1", ":", "d", "b", "9", ":", ":">>,
     <<":", ":", "f", "f", "f", "f", ":", "1", "0", ".", "0", ".", "0", ".", "1">>, <<":", ":", "f", "f", "f", "f", ":", "a", "0", "0", ":", "0">>, <<":", ":", "f", "f", "f", "f", ":", "a", "f", "f", ":", "f", "f", "f", "f">>, <<":", ":", "f", "f", "f", "f", ":", "b", "0", "0", ":", "0">>}

AddrInputs == InvalidLiterals \cup ValidLiterals

\* the addresses the requests of the whole-program specification carry
RequestInputs ==
    {<<>>, <<"n", "o", "t", "-", "a", "n", "-", "i", "p">>, <<"1", "0", ".", "1", ".", "2", ".", "3">>, <<"1", "9", "2", ".", "1", "6", "8", ".", "1", ".", "7">>, <<"8", ".", "8", ".", "8", ".", "8">>, <<"2", "0", "0", "1", ":", "d", "b", "8", ":", ":", "1">>}

\* credential strings handed to validate_key
KeyInputs == {<<"a", "b">>, <<"A", "B">>, <<" ", "a", "b">>, <<"a", "b", " ">>, <<"c", "d">>, <<"z", "z">>, <<"N", "o", "n", "e">>}

\* the credentials the requests of the whole-program specification carry
RequestKeys == {<<"a", "b">>, <<"z", "z">>}

\* ------------------------------------------------------------ csv reading

\* open(path, mode='r'): the exception it raises, or "ok"
OpenResult(file) ==
    IF ~file.exists THEN "FileNotFoundError"
    ELSE IF ~file.readable THEN "PermissionError"
    ELSE "ok"

\* csv.DictReader: rows that are empty lists are skipped
DataRows(file) == SelectSeq(file.rows, LAMBDA r : r # <<>>)

\* row[name] of the dict csv.DictReader builds: dict(zip(fieldnames, row)), then
\* restval for the fields past the row's end
RowGet(fieldnames, cells, name) ==
    LET idx == {i \in 1..Len(fieldnames) : fieldnames[i] = name}
        last == CHOOSE i \in idx : \A j \in idx : j <= i
    IN  IF last <= Len(cells) THEN cells[last] ELSE None

HasColumns(file, required) ==
    required \subseteq {file.fieldnames[i] : i \in 1..Len(file.fieldnames)}

\* ------------------------------------------------------------ IPManager

\* (mutation of Handled) only `except FileNotFoundError` is there
HandledNotFoundOnly(exc) == exc = "FileNotFoundError"

\* the handlers of _load_clients: except FileNotFoundError / except Exception
Handled(exc) == exc \in {"FileNotFoundError", "PermissionError", "AttributeError"}

\* networks.append(network), or the ValueError handler: the prefix is skipped
Parsed(network) == IF network.ok THEN <<network>> ELSE <<>>

\* the loop `for cidr in cidr_strings`
RECURSIVE ParseNetworks(_)
ParseNetworks(cidr_strings) ==
    IF cidr_strings = <<>> THEN <<>>
    ELSE Parsed(ip_network(Head(cidr_strings))) \o ParseNetworks(Tail(cidr_strings))

\* [cidr.strip() for cidr in parts]
StripAll(parts) == [i \in 1..Len(parts) |-> strip(parts[i])]

\* [cidr.strip() for cidr in row["cidr_ranges"].split(',')]
CidrStrings(cell) == StripAll(split(cell, ","))

\* (mutation of AddClient) the record is appended without `if networks:`
AddClientAlways(clients, name, class, networks) ==
    Append(clients, [client_name |-> name, classification |-> class,
                     networks |-> networks])

\* `if networks: clients.append({...})`
AddClient(clients, name, class, networks) ==
    IF networks # <<>>
    THEN Append(clients, [client_name |-> name, classification |-> class,
                          networks |-> networks])
    ELSE clients

\* one iteration of `for row in reader`: the exception it raises ("ok": none)
\* and the list `clients` after it
LoadRow(fieldnames, cells, clients) ==
    IF RowGet(fieldnames, cells, "cidr_ranges") = None
    THEN [exc |-> "AttributeError", clients |-> clients]
    ELSE [exc |-> "ok",
          clients |-> AddClient(clients,
                          RowGet(fieldnames, cells, "client_name"),
                          RowGet(fieldnames, cells, "classification"),
                          ParseNetworks(CidrStrings(
                              RowGet(fieldnames, cells, "cidr_ranges"))))]

\* what happens to an exception raised inside the try block
Outcome(exc) == IF exc = "ok" THEN "ok" ELSE IF Handled(exc) THEN "return" ELSE "raise"

\* what _load_clients does before its first row: "rows" (go on to the loop),
\* "return" (the empty list is returned) or "raise" (an exception escapes)
LoadStart(file) ==
    IF OpenResult(file) # "ok" THEN Outcome(OpenResult(file))
    ELSE IF ~HasColumns(file, RequiredIpColumns) THEN "return"
    ELSE "rows"

RECURSIVE LoadRows(_, _, _)
LoadNext(file, i, r) ==
    IF r.exc = "ok" THEN LoadRows(file, i + 1, r.clients)
    ELSE [raised |-> Outcome(r.exc) = "raise", clients |-> r.clients]

\* the loop `for row in reader` from row i on
LoadRows(file, i, clients) ==
    IF i > Len(DataRows(file)) THEN [raised |-> FALSE, clients |-> clients]
    ELSE LoadNext(file, i, LoadRow(file.fieldnames, DataRows(file)[i], clients))

\* IPManager._load_clients(): the list returned, or raised = TRUE
IP_load_clients(file) ==
    IF LoadStart(file) = "rows" THEN LoadRows(file, 1, <<>>)
    ELSE [raised |-> LoadStart(file) = "raise", clients |-> <<>>]

Result(valid, name, class, cidr, message) ==
    [valid |-> valid, client_name |-> name, classification |-> class,
     matched_cidr |-> cidr, message |-> message]

NoResult == Result(FALSE, <<>>, <<>>, <<>>, "")
NotAuthorized == Result(FALSE, <<>>, <<>>, <<>>, "IP address not authorized")
\* (mutation of InvalidFormat) a malformed address is reported as unauthorized
ConflatedFormat == NotAuthorized

InvalidFormat == Result(FALSE, <<>>, <<>>, <<>>, "Invalid IP address format")
InvalidKey == Result(FALSE, <<>>, <<>>, <<>>, "Invalid API Key")

\* the loop `for network in client["networks"]`: the first network that
\* contains ip (0: none)
FirstNetwork(client, ip) ==
    LET hits == {n \in 1..Len(client.networks) : InNetwork(ip, client.networks[n])}
    IN  IF hits = {} THEN 0 ELSE CHOOSE n \in hits : \A m \in hits : n <= m

\* the dict validate_ip returns for network n of the client
Matched(client, n) ==
    Result(TRUE, client.client_name, client.classification,
           NetworkStr(client.networks[n]), "")

RECURSIVE ScanFrom(_, _, _)
ScanNext(clients, ip, i, n) ==
    IF n # 0 THEN Matched(clients[i], n) ELSE ScanFrom(clients, ip, i + 1)

\* the loops of validate_ip over the list clients, from client i on
ScanFrom(clients, ip, i) ==
    IF i > Len(clients) THEN NotAuthorized
    ELSE ScanNext(clients, ip, i, FirstNetwork(clients[i], ip))

Scan(clients, ip) == IF ~ip.ok THEN InvalidFormat ELSE ScanFrom(clients, ip, 1)

\* validate_ip(input) against the list clients
validate_ip(clients, input) == Scan(clients, ip_address(input))

\* ------------------------------------------------------------ APIKeyManager

\* the handlers of _load_clients: except FileNotFoundError / except Exception
KeyHandled(exc) == exc \in {"FileNotFoundError", "PermissionError"}

\* (mutation of Put) a key already in the dict keeps its first record
PutIfAbsent(clients, api_key, name, class) ==
    [k \in (DOMAIN clients) \cup {api_key} |->
        IF k \in DOMAIN clients THEN clients[k]
        ELSE [client_name |-> name, classification |-> class]]

\* clients[api_key] = {"client_name": ..., "classification": ...}
Put(clients, api_key, name, class) ==
    [k \in (DOMAIN clients) \cup {api_key} |->
        IF k = api_key THEN [client_name |-> name, classification |-> class]
        ELSE clients[k]]

\* one iteration of `for row in reader`
KeyLoadRow(fieldnames, cells, clients) ==
    Put(clients, RowGet(fieldnames, cells, "api_key"),
        RowGet(fieldnames, cells, "client_name"),
        RowGet(fieldnames, cells, "classification"))

RECURSIVE KeyLoadRows(_, _, _)
KeyLoadRows(file, i, clients) ==
    IF i > Len(DataRows(file)) THEN clients
    ELSE KeyLoadRows(file, i + 1,
                     KeyLoadRow(file.fieldnames, DataRows(file)[i], clients))

\* APIKeyManager._load_clients(): the dict returned, or raised = TRUE
Key_load_clients(file) ==
    IF OpenResult(file) # "ok"
    THEN [raised |-> ~KeyHandled(OpenResult(file)), clients |-> <<>>]
    ELSE IF ~HasColumns(file, RequiredKeyColumns)
    THEN [raised |-> FALSE, clients |-> <<>>]
    ELSE [raised |-> FALSE, clients |-> KeyLoadRows(file, 1, <<>>)]

\* APIKeyManager.validate_key(api_key)
validate_key(clients, api_key) ==
    IF api_key \in DOMAIN clients
    THEN Result(TRUE, clients[api_key].client_name,
                clients[api_key].classification, <<>>, "")
    ELSE InvalidKey

\* ------------------------------------------------------------ the program

VARIABLES
    ipFile,          \* the state of ip_clients.csv
    keyFile,         \* the state of clients.csv
    nEdits,          \* edits of the two files so far
    nReloads,        \* calls of ip_manager.reload_clients() so far
    heap,            \* the list objects: object -> list of client records
    heapSrc,         \* the source state each list object was built from
    selfClients,     \* ip_manager.clients: a reference to a list object
    keyClients,      \* key_manager.clients: the dict
    keyFrom,         \* the source state key_manager.clients was built from
    keyReloadCalled, \* key_manager.reload_clients() was called since the last edit
    ipSynced,        \* a reload begun after the last edit of ip_clients.csv is done
    l_pc,            \* the reloading thread: "idle", "rows", "return"
    l_obj,           \* its local `clients`
    l_i,             \* the row it is at
    l_fresh,         \* ip_clients.csv was not edited since it began
    v_pc,            \* the request thread: "idle", "scan", "done"
    v_kind,          \* "ip" (validate_ip) or "key" (validate_key)
    v_input,         \* the credential string
    v_obj,           \* the list object validate_ip iterates
    v_i,             \* the index of its list iterator
    v_result,        \* what the call returns
    v_seen,          \* the lists ip_manager.clients referred to during the call
    crashed          \* an exception escaped _load_clients

vars ==
    <<ipFile, keyFile, nEdits, nReloads, heap, heapSrc, selfClients, keyClients,
      keyFrom, keyReloadCalled, ipSynced, l_pc, l_obj, l_i, l_fresh, v_pc, v_kind,
      v_input, v_obj, v_i, v_result, v_seen, crashed>>

fileVars == <<ipFile, keyFile, nEdits>>
keyVars == <<keyClients, keyFrom>>
loaderVars == <<l_pc, l_obj, l_i, l_fresh>>
requestVars == <<v_pc, v_kind, v_input, v_obj, v_i, v_result, v_seen>>

ObjIds == {"o1", "o2", "o3"}

\* the list objects something still refers to
Referenced(self, lpc, lobj, vpc, vobj) ==
    ({self} \cup (IF lpc # "idle" THEN {lobj} ELSE {})
            \cup (IF vpc # "idle" THEN {vobj} ELSE {})) \ {"none"}

\* garbage collection: a list nothing refers to is gone
Collect(h, live) == [o \in ObjIds |-> IF o \in live THEN h[o] ELSE <<>>]
CollectSrc(h, live) == [o \in ObjIds |-> IF o \in live THEN h[o] ELSE "none"]

\* IPManager.__init__ and APIKeyManager.__init__, run by app.py at import
InitWith(ipLoad, keyLoad) ==
    /\ nEdits = 0
    /\ nReloads = 0
    /\ selfClients = "o1"
    /\ heap = [o \in ObjIds |->
                 IF o = "o1" THEN ipLoad.clients
                 ELSE <<>>]
    /\ heapSrc = [o \in ObjIds |-> IF o = "o1" THEN ipFile ELSE "none"]
    /\ keyClients = keyLoad.clients
    /\ keyFrom = keyFile
    /\ keyReloadCalled = FALSE
    /\ ipSynced = FALSE
    /\ l_pc = "idle" /\ l_obj = "none" /\ l_i = 0 /\ l_fresh = FALSE
    /\ v_pc = "idle" /\ v_kind = "ip" /\ v_input = <<>> /\ v_obj = "none"
    /\ v_i = 0 /\ v_result = NoResult /\ v_seen = {}
    /\ crashed = (ipLoad.raised \/ keyLoad.raised)

InitOn(ipFiles, keyFiles) ==
    /\ ipFile \in ipFiles
    /\ keyFile \in keyFiles
    /\ InitWith(IP_load_clients(IpFileContent(ipFile)),
                Key_load_clients(KeyFileContent(keyFile)))

Init == InitOn(IpFiles, KeyFiles)

\* ip_clients.csv is edited out of band
EditIpFile ==
    /\ nEdits < MaxEdits
    /\ \E f \in IpFiles \ {ipFile} : ipFile' = f
    /\ nEdits' = nEdits + 1
    /\ ipSynced' = FALSE
    /\ l_fresh' = FALSE
    /\ UNCHANGED <<keyFile, nReloads, heap, heapSrc, selfClients, keyVars,
                   keyReloadCalled, l_pc, l_obj, l_i, requestVars, crashed>>

\* clients.csv is edited out of band
EditKeyFile ==
    /\ nEdits < MaxEdits
    /\ \E f \in KeyFiles \ {keyFile} : keyFile' = f
    /\ nEdits' = nEdits + 1
    /\ keyReloadCalled' = FALSE
    /\ UNCHANGED <<ipFile, nReloads, heap, heapSrc, selfClients, keyVars, ipSynced,
                   loaderVars, requestVars, crashed>>

\* (mutation of LoadTarget) the rows are appended to the list self.clients
\* refers to, instead of to a local list
LoadInPlace(self, fresh) == self

\* the list _load_clients fills: its local `clients = []`
LoadTarget(self, fresh) == fresh

\* reload_clients() -> _load_clients(): `clients = []`, open, the header check
ReloadStart(target, start, rows) ==
    IF start = "raise"
    THEN /\ crashed' = TRUE
         /\ UNCHANGED <<heap, heapSrc, loaderVars>>
    ELSE /\ l_obj' = target
         /\ heapSrc' = [heapSrc EXCEPT ![target] = ipFile]
         /\ heap' = heap
         /\ l_pc' = IF start = "rows" /\ rows # <<>> THEN "rows" ELSE "return"
         /\ l_i' = 1
         /\ l_fresh' = TRUE
         /\ UNCHANGED crashed

\* a list object nothing refers to
FreshObj(live) == CHOOSE o \in ObjIds \ live : TRUE

ReloadBegin ==
    /\ l_pc = "idle"
    /\ nReloads < MaxReloads
    /\ nReloads' = nReloads + 1
    /\ ReloadStart(LoadTarget(selfClients,
                      FreshObj(Referenced(selfClients, l_pc, l_obj, v_pc, v_obj))),
                   LoadStart(IpFileContent(ipFile)),
                   DataRows(IpFileContent(ipFile)))
    /\ UNCHANGED <<fileVars, selfClients, keyVars, keyReloadCalled, ipSynced,
                   requestVars>>

\* one iteration of `for row in reader`: r is what it did, of n rows
ReloadRowDone(r, n) ==
    /\ heap' = [heap EXCEPT ![l_obj] = r.clients]
    /\ IF Outcome(r.exc) = "raise"
       THEN /\ crashed' = TRUE
            /\ l_pc' = "idle" /\ l_obj' = "none" /\ l_i' = 0
            /\ l_fresh' = FALSE
       ELSE /\ l_pc' = IF r.exc = "ok" /\ l_i < n THEN "rows" ELSE "return"
            /\ l_i' = l_i + 1
            /\ UNCHANGED <<l_obj, l_fresh, crashed>>

ReloadRowOf(file) ==
    ReloadRowDone(LoadRow(file.fieldnames, DataRows(file)[l_i], heap[l_obj]),
                  Len(DataRows(file)))

ReloadRow ==
    /\ l_pc = "rows"
    /\ ReloadRowOf(IpFileContent(heapSrc[l_obj]))
    /\ UNCHANGED <<fileVars, nReloads, heapSrc, selfClients, keyVars,
                   keyReloadCalled, ipSynced, requestVars>>

\* `return clients`, then self.clients = <the list returned>
ReloadPublish ==
    /\ l_pc = "return"
    /\ selfClients' = l_obj
    /\ ipSynced' = l_fresh
    /\ l_pc' = "idle" /\ l_obj' = "none" /\ l_i' = 0 /\ l_fresh' = FALSE
    /\ v_seen' = IF v_pc = "scan" THEN v_seen \cup {heap[l_obj]} ELSE v_seen
    /\ LET live == Referenced(l_obj, "idle", "none", v_pc, v_obj)
       IN  /\ heap' = Collect(heap, live)
           /\ heapSrc' = CollectSrc(heapSrc, live)
    /\ UNCHANGED <<fileVars, nReloads, keyVars, keyReloadCalled, v_pc, v_kind,
                   v_input, v_obj, v_i, v_result, crashed>>

\* key_manager.reload_clients(), as the module docstrings tell the operator to
\* call it: APIKeyManager defines no such method, the call raises AttributeError
\* and key_manager.clients stays as it is
KeyReloadCall ==
    /\ ~keyReloadCalled
    /\ keyReloadCalled' = TRUE
    /\ UNCHANGED <<fileVars, nReloads, heap, heapSrc, selfClients, keyVars, ipSynced,
                   loaderVars, requestVars, crashed>>

\* validate_ip(a) up to `for client in self.clients`: the address is parsed and
\* the iterator takes the list self.clients refers to
ValidateIpParsed(ip) ==
    IF ip.ok
    THEN /\ v_pc' = "scan"
         /\ v_obj' = selfClients
         /\ v_i' = 1
         /\ v_result' = NoResult
         /\ v_seen' = {heap[selfClients]}
    ELSE /\ v_pc' = "done"
         /\ v_obj' = "none"
         /\ v_i' = 0
         /\ v_result' = InvalidFormat
         /\ v_seen' = {}

ValidateIpBegin(inputs) ==
    /\ v_pc = "idle"
    /\ \E a \in inputs :
        /\ v_input' = a
        /\ ValidateIpParsed(ip_address(a))
    /\ v_kind' = "ip"
    /\ UNCHANGED <<fileVars, nReloads, heap, heapSrc, selfClients, keyVars,
                   keyReloadCalled, ipSynced, loaderVars, crashed>>

\* one iteration of `for client in self.clients` (the list iterator compares its
\* index with the list's current length), with the inner loop over the networks
ValidateIpAt(clients, n) ==
    IF v_i > Len(clients)
    THEN /\ v_result' = NotAuthorized
         /\ v_pc' = "done"
         /\ v_i' = v_i
    ELSE IF n # 0
    THEN /\ v_result' = Matched(clients[v_i], n)
         /\ v_pc' = "done"
         /\ v_i' = v_i
    ELSE /\ v_i' = v_i + 1
         /\ UNCHANGED <<v_pc, v_result>>

\* (mutation of ValidateIpNext) the most specific network of the whole registry
\* wins, whichever client declared it
ValidateIpLongestPrefix(clients, ip) ==
    LET hits == UNION {{<<c, n>> : n \in {m \in 1..Len(clients[c].networks) :
                                    InNetwork(ip, clients[c].networks[m])}} :
                       c \in 1..Len(clients)}
        best == CHOOSE h \in hits : \A g \in hits :
                    clients[g[1]].networks[g[2]].prefixlen
                        <= clients[h[1]].networks[h[2]].prefixlen
    IN  /\ v_result' = IF hits = {} THEN NotAuthorized
                       ELSE Matched(clients[best[1]], best[2])
        /\ v_pc' = "done"
        /\ v_i' = v_i

ValidateIpNext(clients, ip) ==
    ValidateIpAt(clients,
                 IF v_i > Len(clients) THEN 0 ELSE FirstNetwork(clients[v_i], ip))

\* (mutation of ClientsAfterScan) the scan takes each client off the list it
\* goes through, as `while clients: client = clients.pop(0)` would
ConsumedByScan(clients) == IF clients = <<>> THEN <<>> ELSE Tail(clients)

\* the list after an iteration of the scan: `for client in self.clients`,
\* `client["networks"]` and `ip in network` only read it
ClientsAfterScan(clients) == clients

ValidateIpStep ==
    /\ v_pc = "scan"
    /\ ValidateIpNext(heap[v_obj], ip_address(v_input))
    /\ heap' = [heap EXCEPT ![v_obj] = ClientsAfterScan(@)]
    /\ UNCHANGED <<fileVars, nReloads, heapSrc, selfClients, keyVars,
                   keyReloadCalled, ipSynced, loaderVars, v_kind, v_input, v_obj,
                   v_seen, crashed>>

\* the dict after validate_key(k): `api_key in self.clients` and
\* `self.clients[api_key]` on a plain dict only read it
KeysAfterLookup(clients, k) == clients

\* validate_key(k)
ValidateKey(inputs) ==
    /\ v_pc = "idle"
    /\ \E k \in inputs :
        /\ v_input' = k
        /\ v_result' = validate_key(keyClients, k)
        /\ keyClients' = KeysAfterLookup(keyClients, k)
    /\ v_kind' = "key"
    /\ v_pc' = "done"
    /\ UNCHANGED <<fileVars, nReloads, heap, heapSrc, selfClients, keyFrom,
                   keyReloadCalled, ipSynced, loaderVars, v_obj, v_i, v_seen, crashed>>

\* the call returns to the route handler
Return ==
    /\ v_pc = "done"
    /\ v_pc' = "idle" /\ v_kind' = "ip" /\ v_input' = <<>> /\ v_obj' = "none"
    /\ v_i' = 0 /\ v_result' = NoResult /\ v_seen' = {}
    /\ LET live == Referenced(selfClients, l_pc, l_obj, "idle", "none")
       IN  /\ heap' = Collect(heap, live)
           /\ heapSrc' = CollectSrc(heapSrc, live)
    /\ UNCHANGED <<fileVars, nReloads, selfClients, keyVars, keyReloadCalled,
                   ipSynced, loaderVars, crashed>>

\* the program: requests of both kinds while ip_clients.csv is edited and reloaded
Next ==
    \/ EditIpFile
    \/ ReloadBegin
    \/ ReloadRow
    \/ ReloadPublish
    \/ ValidateIpBegin(RequestInputs)
    \/ ValidateIpStep
    \/ ValidateKey(RequestKeys)
    \/ Return

Spec == Init /\ [][Next]_vars

\* the key manager while clients.csv is edited and the operator asks for a reload
InitKey == InitOn({"missing"}, KeyFiles)

NextKey ==
    \/ EditKeyFile
    \/ KeyReloadCall
    \/ ValidateKey(KeyInputs)
    \/ Return

SpecKey == InitKey /\ [][NextKey]_vars

\* the matcher alone, against every single-network registry and every source of
\* the program
InitMatch == InitOn(IpFiles \cup SingleFiles, {"missing"})

NextMatch ==
    \/ ValidateIpBegin(AddrInputs)
    \/ ValidateIpStep
    \/ Return

SpecMatch == InitMatch /\ [][NextMatch]_vars

\* ------------------------------------------------------------ the claims

\* bit k of an address, 1 the most significant
Bit(version, groups, k) ==
    (groups[((k - 1) \div GroupBits(version)) + 1]
        \div Pow2(GroupBits(version) - 1 - ((k - 1) % GroupBits(version)))) % 2

\* the address has the network's family and its top prefixlen bits are those of
\* the network's base address
Covers(network, ip) ==
    /\ network.version = ip.version
    /\ \A k \in 1..network.prefixlen :
          Bit(ip.version, ip.groups, k) = Bit(network.version, network.groups, k)

\* the (client position, network position) pairs whose network contains ip
MatchPairs(clients, ip) ==
    UNION {{<<c, n>> : n \in {m \in 1..Len(clients[c].networks) :
                                  Covers(clients[c].networks[m], ip)}} :
           c \in 1..Len(clients)}

\* the smallest pair, in source order
FirstPair(pairs) ==
    CHOOSE h \in pairs : \A g \in pairs :
        h[1] < g[1] \/ (h[1] = g[1] /\ h[2] <= g[2])

ResultAt(clients, h) ==
    Result(TRUE, clients[h[1]].client_name, clients[h[1]].classification,
           NetworkStr(clients[h[1]].networks[h[2]]), "")

FirstMatchResult(clients, pairs) ==
    IF pairs = {} THEN NotAuthorized ELSE ResultAt(clients, FirstPair(pairs))

IpDone == v_pc = "done" /\ v_kind = "ip"
KeyDone == v_pc = "done" /\ v_kind = "key"
\* a validate_ip call that went through the registry has returned
ScanDone == IpDone /\ v_obj # "none"

\* C1: validate_ip returns the client and network at the smallest (client
\* position, network position) pair whose network contains the address; an
\* address in the overlap of an earlier client's /8 and a later client's /16
\* resolves to the earlier client.
C1_FirstMatchWins ==
    /\ ScanDone =>
          v_result = FirstMatchResult(heap[v_obj],
                                      MatchPairs(heap[v_obj], ip_address(v_input)))
    /\ (ScanDone /\ heapSrc[v_obj] = "overlap" /\ v_input = <<"1", "0", ".", "1", ".", "2", ".", "3">>) =>
          (v_result.client_name = <<"X">> /\ v_result.matched_cidr = <<"1", "0", ".", "0", ".", "0", ".", "0", "/", "8">>)

C1_Witness ==
    /\ ScanDone
    /\ heapSrc[v_obj] = "overlap"
    /\ v_input = <<"1", "0", ".", "1", ".", "2", ".", "3">>
    /\ v_result.valid
    /\ v_result.client_name = <<"X">>

\* C2: a lookup that runs while reload_clients() runs returns what it would
\* return against one of the complete registries ip_manager.clients referred to
\* during the call, and the list a lookup iterates, like the list
\* ip_manager.clients refers to, is never the one _load_clients is filling.
C2_ReloadAtomic ==
    /\ ScanDone => \E r \in v_seen : v_result = validate_ip(r, v_input)
    /\ l_pc # "idle" => (l_obj # selfClients /\ (v_pc # "idle" => l_obj # v_obj))

C2_Witness ==
    /\ ScanDone
    /\ Cardinality(v_seen) = 2
    /\ v_obj # selfClients
    /\ v_result.valid

SomeNetworkCovers(clients, ip) == MatchPairs(clients, ip) # {}

ScannedList == IF v_obj = "none" THEN <<>> ELSE heap[v_obj]

\* C3: validate_ip returns "Invalid IP address format" exactly for the inputs
\* that are no IPv4/IPv6 literal, "IP address not authorized" exactly for the
\* literals no registered network contains, and success otherwise; the three
\* outcomes exclude each other and the outcome is a returned value.
C3_OutcomesExclusive ==
    IpDone =>
      /\ (v_result = InvalidFormat) = (v_input \in InvalidLiterals)
      /\ (v_result = NotAuthorized) =
            (/\ v_input \in ValidLiterals
             /\ ~SomeNetworkCovers(ScannedList, ip_address(v_input)))
      /\ v_result.valid =
            (/\ v_input \in ValidLiterals
             /\ SomeNetworkCovers(ScannedList, ip_address(v_input)))
      /\ v_result.valid => v_result.message = ""
      /\ v_result # NoResult

C3_Witness ==
    /\ IpDone
    /\ v_input = <<"1", "9", "2", ".", "1", "6", "8", ".", "1">>
    /\ v_result = InvalidFormat
    /\ heap[selfClients] # <<>>

\* the source was opened and has the required header
Loadable(file, required) == OpenResult(file) = "ok" /\ HasColumns(file, required)

\* the parseable prefixes of a row's cidr_ranges cell, in declaration order
Parseable(cell) == IF cell = None THEN <<>> ELSE ParseNetworks(CidrStrings(cell))

RowPrefixes(file, i) ==
    Parseable(RowGet(file.fieldnames, DataRows(file)[i], "cidr_ranges"))

\* the record a row with a parseable prefix must have in the registry
RowRecord(file, i) ==
    [client_name |-> RowGet(file.fieldnames, DataRows(file)[i], "client_name"),
     classification |-> RowGet(file.fieldnames, DataRows(file)[i], "classification"),
     networks |-> RowPrefixes(file, i)]

HasRecord(clients, rec) == \E j \in 1..Len(clients) : clients[j] = rec

EveryGoodRowLoaded(clients, file) ==
    Loadable(file, RequiredIpColumns) =>
        \A i \in 1..Len(DataRows(file)) :
            RowPrefixes(file, i) # <<>> => HasRecord(clients, RowRecord(file, i))

\* C4: in a source with the required header a malformed entry (an unparseable
\* prefix, a row without its cidr_ranges field) removes only itself: every other
\* row with a parseable prefix, before or after it, is in the built registry,
\* and the load raises nothing.
C4_MalformedEntryRemovesOnlyItself ==
    /\ ~crashed
    /\ EveryGoodRowLoaded(heap[selfClients], IpFileContent(heapSrc[selfClients]))

SoftFailure(file, required) == ~Loadable(file, required)

IpSoftFailure(f) == f # "none" /\ SoftFailure(IpFileContent(f), RequiredIpColumns)

\* C5: a source that is missing, unreadable or without the required columns
\* makes the initial load and every reload return an empty registry without
\* raising; validate_key then returns "Invalid API Key" and validate_ip of a
\* valid address "IP address not authorized".
C5_SoftFailureDeniesAll ==
    /\ ~crashed
    /\ \A o \in ObjIds : IpSoftFailure(heapSrc[o]) => heap[o] = <<>>
    /\ SoftFailure(KeyFileContent(keyFrom), RequiredKeyColumns) =>
          /\ DOMAIN keyClients = {}
          /\ KeyDone => v_result = InvalidKey
    /\ (ScanDone /\ IpSoftFailure(heapSrc[v_obj])) => v_result = NotAuthorized

C5_Witness ==
    /\ ipSynced
    /\ heapSrc[selfClients] = "unreadable"
    /\ ScanDone
    /\ v_obj = selfClients
    /\ v_result = NotAuthorized

\* C6: the key registry and the IP registry can both be reloaded: once the
\* source was edited and reload_clients() was called (and has returned), the
\* registry is the one built from the source as it is now.
C6_BothRegistriesReload ==
    /\ keyReloadCalled =>
          keyClients = Key_load_clients(KeyFileContent(keyFile)).clients
    /\ ipSynced =>
          heap[selfClients] = IP_load_clients(IpFileContent(ipFile)).clients

\* the rows whose api_key is the credential, character for character
KeyRows(file, k) ==
    {i \in 1..Len(DataRows(file)) :
        RowGet(file.fieldnames, DataRows(file)[i], "api_key") = k}

Last(rows) == CHOOSE i \in rows : \A j \in rows : j <= i

KeyRowResult(file, i) ==
    Result(TRUE, RowGet(file.fieldnames, DataRows(file)[i], "client_name"),
           RowGet(file.fieldnames, DataRows(file)[i], "classification"), <<>>, "")

LastRowResult(file, rows) ==
    IF rows = {} THEN InvalidKey ELSE KeyRowResult(file, Last(rows))

\* C7: against a source with the required header validate_key(k) succeeds
\* exactly when some row's api_key is k verbatim, and returns the client_name and
\* classification of the last such row; otherwise "Invalid API Key".
C7_KeyExactLastWins ==
    (KeyDone /\ Loadable(KeyFileContent(keyFrom), RequiredKeyColumns)) =>
        v_result = LastRowResult(KeyFileContent(keyFrom),
                                 KeyRows(KeyFileContent(keyFrom), v_input))

C7_Witness ==
    /\ KeyDone
    /\ keyFrom = "clients"
    /\ v_input = <<"a", "b">>
    /\ v_result.valid
    /\ v_result.client_name = <<"C", "l", "i", "e", "n", "t", "C">>

RECURSIVE IsSubsequence(_, _)
\* a is b with some elements left out, the order kept
IsSubsequence(a, b) ==
    IF a = <<>> THEN TRUE
    ELSE IF b = <<>> THEN FALSE
    ELSE IF Head(a) = Head(b) THEN IsSubsequence(Tail(a), Tail(b))
    ELSE IsSubsequence(a, Tail(b))

\* the record of a row whose parseable prefixes are networks, if it has any
GoodRecord(fieldnames, cells, networks) ==
    IF networks = <<>> THEN <<>>
    ELSE <<[client_name |-> RowGet(fieldnames, cells, "client_name"),
            classification |-> RowGet(fieldnames, cells, "classification"),
            networks |-> networks]>>

RECURSIVE GoodRecords(_, _)
\* the records of the rows that have a parseable prefix, in row order
GoodRecords(fieldnames, rows) ==
    IF rows = <<>> THEN <<>>
    ELSE GoodRecord(fieldnames, Head(rows),
                    Parseable(RowGet(fieldnames, Head(rows), "cidr_ranges")))
         \o GoodRecords(fieldnames, Tail(rows))

\* what a source can give the registry: the records of its rows that have a
\* parseable prefix, none when it cannot be loaded
GoodRecordsOf(file) ==
    IF Loadable(file, RequiredIpColumns)
    THEN GoodRecords(file.fieldnames, DataRows(file))
    ELSE <<>>

GoodRecordsBySource == [f \in IpFiles \cup SingleFiles |-> GoodRecordsOf(IpFileContent(f))]

RegistryWellFormed(clients, f) ==
    /\ \A j \in 1..Len(clients) : clients[j].networks # <<>>
    /\ IsSubsequence(clients, GoodRecordsBySource[f])

\* C8: after the initial load and after every reload each record of the IP
\* registry owns at least one network, its networks are the parseable prefixes
\* of its row's cidr_ranges cell in declaration order, the records are in row
\* order, and a row whose prefixes are all malformed has no record.
C8_RegistryInvariant ==
    RegistryWellFormed(heap[selfClients], heapSrc[selfClients])

C8_Witness ==
    /\ ipSynced
    /\ heapSrc[selfClients] = "mixed"
    /\ Len(heap[selfClients]) = 2
    /\ Len(heap[selfClients][1].networks) = 2
    /\ heap[selfClients][2].client_name = <<"C">>

\* the family a literal is written in
FamilyOf(text) == IF Contains(text, ":") THEN 6 ELSE 4

\* the prefix a single-network source declares
DeclaredCidr(f) == IpFileContent(f).rows[1][3]

SingleNetwork(clients) == clients[1].networks[1]

PrefixMatch(network, ip, family) ==
    /\ family = network.version
    /\ \A k \in 1..network.prefixlen :
          Bit(family, ip.groups, k) = Bit(family, network.groups, k)

\* C9: against a registry of one network n of prefix length p, validate_ip(a)
\* succeeds exactly when a is of n's family and its top p bits are those of n's
\* base address; an IPv4 address never matches an IPv6 network nor the reverse,
\* IPv4-mapped IPv6 addresses included.
C9_PrefixSemantics ==
    (ScanDone /\ heapSrc[v_obj] \in SingleFiles) =>
        /\ Len(heap[v_obj]) = 1 /\ Len(heap[v_obj][1].networks) = 1
        /\ SingleNetwork(heap[v_obj]).version = FamilyOf(DeclaredCidr(heapSrc[v_obj]))
        /\ v_result.valid = PrefixMatch(SingleNetwork(heap[v_obj]),
                                        ip_address(v_input), FamilyOf(v_input))
        /\ FamilyOf(v_input) # FamilyOf(DeclaredCidr(heapSrc[v_obj]))
              => ~v_result.valid

C9_Witness ==
    /\ ScanDone
    /\ heapSrc[v_obj] = "v4_net"
    /\ v_input = <<"1", "0", ".", "2", "5", "5", ".", "2", "5", "5", ".", "2", "5", "5">>
    /\ v_result.valid

\* a declaration with host bits, and the same prefix with the host bits cleared
HostBitPairs ==
    {<<"v4_hostbits", "v4_net">>, <<"v4_24_hostbits", "v4_24">>,
     <<"v4_odd", "v4_odd_cleared">>, <<"v6_hostbits", "v6_net">>}

SameAsCleared(result, own, cleared, input) ==
    /\ result = validate_ip(IP_load_clients(IpFileContent(cleared)).clients, input)
    /\ result.valid =>
          /\ result.matched_cidr = DeclaredCidr(cleared)
          /\ result.matched_cidr # DeclaredCidr(own)

\* C10: a declared prefix with host bits is accepted at load and gives, for
\* every address, the outcome the prefix with the host bits cleared gives; on
\* success matched_cidr is the normalized text of the network, not the text
\* declared, and it parses back to the same network.
C10_HostBitsNormalized ==
    IpDone =>
        /\ \A pair \in HostBitPairs :
              heapSrc[selfClients] = pair[1] =>
                  /\ Len(heap[selfClients]) = 1
                  /\ SameAsCleared(v_result, pair[1], pair[2], v_input)
        /\ (v_result.valid /\ heapSrc[selfClients] \in SingleFiles) =>
              ip_network(v_result.matched_cidr) = SingleNetwork(heap[selfClients])

C10_Witness ==
    /\ IpDone
    /\ heapSrc[selfClients] = "v4_24_hostbits"
    /\ v_input = <<"1", "9", "2", ".", "1", "6", "8", ".", "1", ".", "7">>
    /\ v_result.matched_cidr = <<"1", "9", "2", ".", "1", "6", "8", ".", "1", ".", "0", "/", "2", "4">>

\* a step of a validate_ip or validate_key call
LookupStep == v_pc' # v_pc \/ v_i' # v_i

\* neither registry, nor the list a lookup is going through, is changed
RegistriesUnchanged ==
    /\ selfClients' = selfClients
    /\ heap'[selfClients] = heap[selfClients]
    /\ keyClients' = keyClients
    /\ v_pc = "scan" => heap'[v_obj] = heap[v_obj]

\* the result is the function of the registry contents and the input
ResultOfRegistry ==
    /\ IpDone => v_result = validate_ip(ScannedList, v_input)
    /\ KeyDone => v_result = validate_key(keyClients, v_input)

\* C11: no step of a validate_key or validate_ip call, successful or failing,
\* changes either registry, and what a call returns is determined by the
\* registry contents and the input alone, so two lookups of one input between
\* the same pair of loads return the same result whatever ran in between.
C11_LookupsPure ==
    /\ []ResultOfRegistry
    /\ [][LookupStep => RegistriesUnchanged]_vars

C11_Witness ==
    /\ ipSynced
    /\ ScanDone
    /\ v_obj = selfClients
    /\ v_result.valid
    /\ heap[selfClients] = IP_load_clients(IpFileContent(heapSrc[selfClients])).clients
====
